---------------------------- MODULE Spec2Model ----------------------------
(***************************************************************************)
(* Augmented Food Ninja: the per-frame interaction core.                   *)
(*                                                                         *)
(*   HandDetector      (js/modules/camera-manager.js)    fingertip ids,    *)
(*                                                       smoothed velocity *)
(*   CollisionDetector (js/modules/collision-detector.js) velocity-gated   *)
(*                                                       slicing, cooldown *)
(*   GameLogic         (js/modules/game-logic.js)        score/combo/level *)
(*   FoodSpawner       (js/modules/food-spawner.js)      live food list    *)
(*   AugmentedFoodNinja (js/main.js)                     frame ordering    *)
(*                                                                         *)
(* Units.  JavaScript numbers are modelled by exact integers:              *)
(*   time      milliseconds (performance.now())                            *)
(*   position  hundredths of a world unit, <<x, y, z>>                     *)
(*   velocity  1/6000 world unit per second, so that the mean of up to     *)
(*             five raw velocities is exact for the inputs enumerated      *)
(*   landmark  normalized detector coordinates <<x, y, z>> in units of     *)
(*             1/800, 1/600 and 1/200                                      *)
(***************************************************************************)
EXTENDS Integers, Sequences, FiniteSets, TLC

VARIABLES
    now,                \* performance.now() at the latest frame, ms
    hands,              \* HandDetector.hands
    previousFingertips, \* HandDetector.previousFingertips (Map id -> {position,time})
    velocityHistory,    \* HandDetector.velocityHistory    (Map id -> [velocity])
    lastTime,           \* AugmentedFoodNinja.lastTime
    foods,              \* FoodSpawner.foods
    spawnTimer,         \* FoodSpawner.spawnTimer, ms
    spawnInterval,      \* FoodSpawner.spawnInterval, ms
    nextUuid,           \* number of meshes created so far (mesh.uuid is never reused)
    velocityThreshold,  \* CollisionDetector.velocityThreshold
    slicedFoods,        \* CollisionDetector.slicedFoods (Map uuid -> {time,...})
    boundingBoxCache,   \* CollisionDetector.boundingBoxCache (Map uuid -> {box,time})
    totalCollisions,    \* CollisionDetector.totalCollisions
    lastCollisionInfo,  \* CollisionDetector.lastCollisionInfo
    lastCollisionTime,  \* CollisionDetector.lastCollisionTime
    gl,                 \* GameLogic: score, level, foodsSliced, gameTime, combo, lastSliceTime
    frames,             \* number of steps taken (bounds the exploration)
    track,              \* history: per fingertip id, its run of consecutive observations
    ident,              \* history: which physical hand each id and each velocity came from
    pass,               \* history: what the latest collision pass saw and did
    sliceCalls,         \* history: mesh uuid -> number of GameLogic.sliceFood calls for it
    sliceEvents,        \* history: mesh uuid -> the times handleFoodSlice ran for it
    awarded,            \* history: sum of the points sliceFood returned since the last reset
    configured,         \* history: setVelocityThreshold has been called
    lastOp,             \* history: the latest GameLogic call, its inputs and its effect
    scheduled,          \* a requestAnimationFrame(gameLoop) callback is pending
    fingerVisualizer    \* CollisionDetector.fingerVisualizer is not null

vars == <<now, hands, previousFingertips, velocityHistory, lastTime, foods,
          spawnTimer, spawnInterval, nextUuid, velocityThreshold, slicedFoods,
          boundingBoxCache, totalCollisions, lastCollisionInfo, lastCollisionTime, gl,
          frames, track, ident, pass, sliceCalls, sliceEvents, awarded, configured,
          lastOp, scheduled, fingerVisualizer>>

trackerVars == <<hands, previousFingertips, velocityHistory, track, ident>>
gameVars == <<lastTime, foods, spawnTimer, spawnInterval, nextUuid, velocityThreshold,
              slicedFoods, boundingBoxCache, totalCollisions, lastCollisionInfo,
              lastCollisionTime, gl, pass, sliceCalls, sliceEvents, awarded,
              configured, lastOp, scheduled, fingerVisualizer>>

(***************************************************************************)
(* Bounds of the exploration                                               *)
(***************************************************************************)
MaxTrackerFrames == 4       \* frames explored by TrackerSpec
MaxSmoothingFrames == 7     \* frames explored by SmoothingSpec
MaxDetectorCalls == 3       \* detector calls explored by DetectorSpec
MaxGameFrames == 4          \* steps explored by Spec
MaxScoreSteps == 3          \* GameLogic calls explored by ScoreSpec
MaxSpawnerFrames == 5       \* steps explored by SpawnerSpec
MaxConsistencyFrames == 7   \* frames explored by ConsistencySpec

(***************************************************************************)
(* Scales                                                                  *)
(***************************************************************************)
PosPerUnit == 10 * 10       \* position units per world unit
VelPerUnit == 60 * 100      \* velocity units per (world unit / second)
MsPerSecond == 1000

(***************************************************************************)
(* Generic helpers                                                         *)
(***************************************************************************)
Null == "null"

Min(a, b) == IF a < b THEN a ELSE b
Max(a, b) == IF a > b THEN a ELSE b

\* JavaScript Map.set on a function with a finite domain
MapSet(m, k, v) == [x \in (DOMAIN m) \cup {k} |-> IF x = k THEN v ELSE m[x]]
EmptyMap == [x \in {} |-> Null]

RECURSIVE SumSeq(_)
SumSeq(s) == IF s = <<>> THEN 0 ELSE Head(s) + SumSeq(Tail(s))

\* the last n elements of s (all of s when it is shorter)
LastN(s, n) == IF Len(s) <= n THEN s ELSE SubSeq(s, Len(s) - n + 1, Len(s))

\* exact integer square root (the inputs enumerated have integral distances)
ISqrt(n) == CHOOSE r \in 0..n : r * r <= n /\ (r + 1) * (r + 1) > n

\* THREE.Vector3.distanceTo
DistanceTo(a, b) ==
    ISqrt((a[1] - b[1]) * (a[1] - b[1]) + (a[2] - b[2]) * (a[2] - b[2])
          + (a[3] - b[3]) * (a[3] - b[3]))

(***************************************************************************)
(* HandDetector                                                            *)
(***************************************************************************)
maxVelocityHistory == 5
IndexFingertip == 8         \* fingertipIndices = [8]

\* `${handId}_${index}`: injective on pairs of non-negative integers
FingertipId(handId, index) == <<handId, index>>

\* one landmark, normalized -> world (mirrored x, flipped y, scaled depth)
ConvertLandmarkToWorld(landmark) ==
    <<400 - landmark[1], 300 - landmark[2], 0 - landmark[3]>>

\* variant: the history is never trimmed
updateVelocityHistoryUnbounded(history, fingertipId, velocity) ==
    MapSet(history, fingertipId,
           Append(IF fingertipId \in DOMAIN history THEN history[fingertipId] ELSE <<>>,
                  velocity))

updateVelocityHistory(history, fingertipId, velocity) ==
    LET h0 == IF fingertipId \in DOMAIN history THEN history[fingertipId] ELSE <<>>
        h1 == Append(h0, velocity)
        h2 == IF Len(h1) > maxVelocityHistory THEN Tail(h1) ELSE h1
    IN  MapSet(history, fingertipId, h2)

getSmoothedVelocity(history, fingertipId) ==
    IF fingertipId \notin DOMAIN history \/ Len(history[fingertipId]) = 0
    THEN 0
    ELSE SumSeq(history[fingertipId]) \div Len(history[fingertipId])

\* raw instantaneous velocity: distance / elapsed seconds, 0 when no time elapsed
RawVelocity(currentPosition, currentTime, previousData) ==
    LET deltaTimeMs == currentTime - previousData.time
        deltaPosition == DistanceTo(currentPosition, previousData.position)
    IN  IF deltaTimeMs > 0
        THEN (deltaPosition * MsPerSecond * VelPerUnit) \div (deltaTimeMs * PosPerUnit)
        ELSE 0

\* variant: the first observation also stores a 0 in the history
calculateFingertipVelocitySeeded(st, fingertipId, currentPosition, currentTime) ==
    LET velocity == IF fingertipId \in DOMAIN st.previousFingertips
                    THEN RawVelocity(currentPosition, currentTime,
                                     st.previousFingertips[fingertipId])
                    ELSE 0
        hist == updateVelocityHistory(st.velocityHistory, fingertipId, velocity)
    IN  [velocity |-> getSmoothedVelocity(hist, fingertipId),
         previousFingertips |->
             MapSet(st.previousFingertips, fingertipId,
                    [position |-> currentPosition, time |-> currentTime]),
         velocityHistory |-> hist]

\* st = [previousFingertips, velocityHistory]; returns the velocity and the new maps
calculateFingertipVelocity(st, fingertipId, currentPosition, currentTime) ==
    IF fingertipId \notin DOMAIN st.previousFingertips
    THEN [velocity |-> 0,
          previousFingertips |->
              MapSet(st.previousFingertips, fingertipId,
                     [position |-> currentPosition, time |-> currentTime]),
          velocityHistory |-> st.velocityHistory]
    ELSE LET velocity == RawVelocity(currentPosition, currentTime,
                                     st.previousFingertips[fingertipId])
             hist == updateVelocityHistory(st.velocityHistory, fingertipId, velocity)
         IN  [velocity |-> getSmoothedVelocity(hist, fingertipId),
              previousFingertips |->
                  MapSet(st.previousFingertips, fingertipId,
                         [position |-> currentPosition, time |-> currentTime]),
              velocityHistory |-> hist]

\* fingertips of one detected hand; only landmark 8 is extracted
extractFingertips(st, landmarks, handId, currentTime) ==
    IF IndexFingertip \in DOMAIN landmarks
    THEN LET fingertipId == FingertipId(handId, IndexFingertip)
             currentPosition == landmarks[IndexFingertip]
             r == calculateFingertipVelocity(st, fingertipId, currentPosition,
                                             currentTime)
         IN  [fingertips |-> <<[position |-> currentPosition, type |-> "index",
                                velocity |-> r.velocity, id |-> fingertipId]>>,
              previousFingertips |-> r.previousFingertips,
              velocityHistory |-> r.velocityHistory]
    ELSE [fingertips |-> <<>>,
          previousFingertips |-> st.previousFingertips,
          velocityHistory |-> st.velocityHistory]

\* the ids of the fingertips of a hand list
FingertipIdsOf(hs) ==
    UNION {{hs[i].fingertips[j].id : j \in 1..Len(hs[i].fingertips)} : i \in 1..Len(hs)}

\* variant: only the velocity histories of absent ids are deleted
cleanupVelocityHistoryKeepsPositions(st) ==
    LET currentFingertipIds == FingertipIdsOf(st.hands)
    IN  [hands |-> st.hands,
         previousFingertips |-> st.previousFingertips,
         velocityHistory |->
             [id \in {x \in DOMAIN st.velocityHistory : x \in currentFingertipIds} |->
                 st.velocityHistory[id]]]

\* variant: only the previous positions of absent ids are deleted
cleanupVelocityHistoryKeepsHistory(st) ==
    LET currentFingertipIds == FingertipIdsOf(st.hands)
    IN  [hands |-> st.hands,
         previousFingertips |->
             [id \in {x \in DOMAIN st.previousFingertips : x \in currentFingertipIds} |->
                 st.previousFingertips[id]],
         velocityHistory |-> st.velocityHistory]

cleanupVelocityHistory(st) ==
    LET currentFingertipIds == FingertipIdsOf(st.hands)
        stale == {id \in DOMAIN st.previousFingertips : id \notin currentFingertipIds}
    IN  [hands |-> st.hands,
         previousFingertips |->
             [id \in (DOMAIN st.previousFingertips) \ stale |-> st.previousFingertips[id]],
         velocityHistory |->
             [id \in (DOMAIN st.velocityHistory) \ stale |-> st.velocityHistory[id]]]

\* the loop of processHandResults over results[i], i = 0 .. length-1
RECURSIVE ProcessHands(_, _, _, _)
ProcessHands(st, results, i, currentTime) ==
    IF i >= Len(results)
    THEN st
    ELSE LET worldLandmarks ==
                 [k \in DOMAIN results[i + 1].landmarks |->
                     ConvertLandmarkToWorld(results[i + 1].landmarks[k])]
             r == extractFingertips(st, worldLandmarks, i, currentTime)
             hand == [id |-> i,
                      handedness |-> results[i + 1].handedness,
                      fingertips |-> r.fingertips]
         IN  ProcessHands([hands |-> Append(st.hands, hand),
                           previousFingertips |-> r.previousFingertips,
                           velocityHistory |-> r.velocityHistory],
                          results, i + 1, currentTime)

\* st = [hands, previousFingertips, velocityHistory]
processHandResults(st, results, currentTime) ==
    cleanupVelocityHistory(
        ProcessHands([hands |-> <<>>,
                      previousFingertips |-> st.previousFingertips,
                      velocityHistory |-> st.velocityHistory],
                     results, 0, currentTime))

\* HandDetector.update: a detector that throws leaves the tracker state as it was
\* detection = [threw, results]: detectForVideo throws, or returns results
HandDetectorUpdate(st, detection, currentTime) ==
    IF detection.threw THEN st
    ELSE processHandResults(st, detection.results, currentTime)

getAllFingertips(hs) ==
    LET RECURSIVE Collect(_)
        Collect(i) ==
            IF i > Len(hs) THEN <<>>
            ELSE [j \in 1..Len(hs[i].fingertips) |->
                     [position |-> hs[i].fingertips[j].position,
                      type |-> hs[i].fingertips[j].type,
                      handedness |-> hs[i].handedness,
                      velocity |-> hs[i].fingertips[j].velocity,
                      id |-> hs[i].fingertips[j].id]] \o Collect(i + 1)
    IN  Collect(1)

hasHands(hs) == Len(hs) > 0

(***************************************************************************)
(* Inputs of the hand detector                                             *)
(*                                                                         *)
(* The landmark detector is an external collaborator: per frame it either  *)
(* throws or returns zero, one or two hands in an order of its own         *)
(* choosing.  A physical hand is named by its handedness.                  *)
(***************************************************************************)
Who == {"Left", "Right"}
None == "none"

\* normalized landmarks whose world positions are (0,0,0) and (0.03,0.04,0)
TrackerLandmarks == {<<400, 300, 0>>, <<397, 296, 0>>}

HandResult(w, lm) == [landmarks |-> [k \in {IndexFingertip} |-> lm], handedness |-> w]

Returns(results) == [threw |-> FALSE, results |-> results]
Throws == [threw |-> TRUE, results |-> <<>>]

ResultsOver(lms) ==
    {<<>>}
    \cup {<<HandResult(w, lm)>> : w \in Who, lm \in lms}
    \cup {<<HandResult(p[1], l[1]), HandResult(p[2], l[2])>> :
            p \in {q \in Who \X Who : q[1] # q[2]},
            l \in {q \in lms \X lms : q[1] # q[2]}}

DetectionsOver(lms) == {Returns(r) : r \in ResultsOver(lms)}

StartTimes == {1000}
TrackerDeltas == {100, 200}
SmoothingDeltas == {0, 100, 200}

(***************************************************************************)
(* History variables of the tracker (not program state)                    *)
(***************************************************************************)
\* per id: n = number of consecutive processed frames it has been observed in,
\* obs = its last observations <<position, time>> (at most maxVelocityHistory + 1)
TrackAfter(tr, det, currentTime) ==
    IF det.threw THEN tr
    ELSE LET detection == det.results
             ids == {FingertipId(i - 1, IndexFingertip) : i \in 1..Len(detection)}
             slot(id) == id[1] + 1
             o(id) == <<ConvertLandmarkToWorld(
                           detection[slot(id)].landmarks[IndexFingertip]),
                        currentTime>>
         IN  [id \in ids |->
                 IF id \in DOMAIN tr
                 THEN [n |-> tr[id].n + 1,
                       obs |-> LastN(Append(tr[id].obs, o(id)), maxVelocityHistory + 1)]
                 ELSE [n |-> 1, obs |-> <<o(id)>>]]

\* owner[id]: the physical hand observed under id in the latest processed frame
\* prevOwner:  the same, one processed frame earlier
\* velSrc[w]:  the physical hand whose stored position the latest velocity of hand w
\*             was measured from (None: no stored position, or w not detected)
\* gone:       the ids that were purged at some earlier frame
IdentAfter(idt, det) ==
    IF det.threw THEN idt
    ELSE LET detection == det.results
             ids == {FingertipId(i - 1, IndexFingertip) : i \in 1..Len(detection)}
             slotOf(w) == CHOOSE i \in 1..Len(detection) : detection[i].handedness = w
             detected == {detection[i].handedness : i \in 1..Len(detection)}
         IN  [owner |-> [id \in ids |-> detection[id[1] + 1].handedness],
              prevOwner |-> idt.owner,
              velSrc |-> [w \in Who |->
                            IF w \in detected
                               /\ FingertipId(slotOf(w) - 1, IndexFingertip)
                                      \in DOMAIN idt.owner
                            THEN idt.owner[FingertipId(slotOf(w) - 1, IndexFingertip)]
                            ELSE None],
              gone |-> idt.gone \cup ((DOMAIN idt.owner) \ ids)]

TrackerInit ==
    /\ hands = <<>>
    /\ previousFingertips = EmptyMap
    /\ velocityHistory = EmptyMap
    /\ track = EmptyMap
    /\ ident = [owner |-> EmptyMap, prevOwner |-> EmptyMap,
                velSrc |-> [w \in Who |-> None], gone |-> {}]

\* one call of HandDetector.update at time currentTime
TrackerStep(detection, currentTime) ==
    LET r == HandDetectorUpdate([hands |-> hands,
                                 previousFingertips |-> previousFingertips,
                                 velocityHistory |-> velocityHistory],
                                detection, currentTime)
    IN  /\ hands' = r.hands
        /\ previousFingertips' = r.previousFingertips
        /\ velocityHistory' = r.velocityHistory
        /\ track' = TrackAfter(track, detection, currentTime)
        /\ ident' = IdentAfter(ident, detection)

(***************************************************************************)
(* GameLogic                                                               *)
(***************************************************************************)
comboTimeout == 2000
LevelPeriodMs == 30 * 1000      \* Math.floor(gameTime / 30), gameTime in ms here

GameLogicInit ==
    [score |-> 0, level |-> 1, foodsSliced |-> 0, gameTime |-> 0, combo |-> 0,
     lastSliceTime |-> 0]

pointsByCategory(foodCategory) ==
    CASE foodCategory = "fruit" -> 15
      [] foodCategory = "main" -> 50
      [] foodCategory = "dessert" -> 30
      [] foodCategory = "tableware" -> 5
      [] OTHER -> 15

HasSpecialBonus(foodType) == foodType \in {"burger", "donut", "apple"}
specialBonuses(foodType) ==
    CASE foodType = "burger" -> 60
      [] foodType = "donut" -> 25
      [] foodType = "apple" -> 20

\* variant: the special bonus added to the category value
BasePointsAdditive(foodType, foodCategory) ==
    pointsByCategory(foodCategory)
    + (IF HasSpecialBonus(foodType) THEN specialBonuses(foodType) ELSE 0)

\* basePoints: the category value (15 when unknown), replaced by the special bonus
BasePoints(foodType, foodCategory) ==
    IF HasSpecialBonus(foodType) THEN specialBonuses(foodType)
    ELSE pointsByCategory(foodCategory)

\* Math.min(1 + (combo - 1) * 0.1, 2.0) as an IEEE-754 double: its nearest tenth, in
\* tenths, and the double's distance from that tenth in units of 2^-52 / 10, the
\* result of rounding (combo - 1) * 0.1 and then the sum
ComboMultiplierTenths(combo) == Min(10 + (combo - 1), 20)
ComboMultiplierError(combo) ==
    CASE combo = 2 -> 4
      [] combo = 3 -> -2
      [] combo = 4 -> 2
      [] combo = 5 -> -4
      [] combo = 7 -> 4
      [] combo = 8 -> 8
      [] combo = 9 -> 2
      [] combo = 10 -> -4
      [] OTHER -> 0

\* the largest power of two strictly below n (n >= 2), starting the search at q
RECURSIVE Pow2Below(_, _)
Pow2Below(n, q) == IF 2 * q < n THEN Pow2Below(n, 2 * q) ELSE q

\* variant: the product computed in exact arithmetic
FloorOfProductExact(points, combo) ==
    (points * ComboMultiplierTenths(combo)) \div 10

\* Math.floor(points * comboMultiplier) in double arithmetic.  The product is
\* rounded to the nearest double (ties to even) before the floor: when
\* points * tenths / 10 is an integer N and the multiplier lies below its tenth, the
\* rounded product is below N as soon as the shortfall points * |error| * 2^-52 / 10
\* exceeds half the spacing 2^(k-52) of the doubles below N, 2^k < N <= 2^(k+1).
FloorOfProduct(points, combo) ==
    LET tenths == ComboMultiplierTenths(combo)
        err == ComboMultiplierError(combo)
        N == (points * tenths) \div 10
    IN  IF (points * tenths) % 10 = 0 /\ err < 0 /\ N >= 2
           /\ points * (0 - err) > 5 * Pow2Below(N, 1)
        THEN N - 1
        ELSE N

\* variant: the score grows by the points before the combo multiplier
sliceFoodScoresBase(g, foodType, foodCategory, currentTime) ==
    LET basePoints == BasePoints(foodType, foodCategory)
        points0 == basePoints * g.level
        combo1 == g.combo + 1
        points == IF combo1 > 1 THEN FloorOfProduct(points0, combo1) ELSE points0
    IN  [gl |-> [g EXCEPT !.combo = combo1,
                          !.lastSliceTime = currentTime,
                          !.score = g.score + points0,
                          !.foodsSliced = g.foodsSliced + 1],
         points |-> points]

\* returns the new GameLogic state and the points awarded
sliceFood(g, foodType, foodCategory, currentTime) ==
    LET basePoints == BasePoints(foodType, foodCategory)
        points0 == basePoints * g.level
        combo1 == g.combo + 1
        points == IF combo1 > 1 THEN FloorOfProduct(points0, combo1) ELSE points0
    IN  [gl |-> [g EXCEPT !.combo = combo1,
                          !.lastSliceTime = currentTime,
                          !.score = g.score + points,
                          !.foodsSliced = g.foodsSliced + 1],
         points |-> points]

\* variant: the combo also expires at a gap of exactly comboTimeout
GameLogicUpdateInclusive(g, deltaTime, currentTime) ==
    [g EXCEPT !.gameTime = g.gameTime + deltaTime,
              !.level = ((g.gameTime + deltaTime) \div LevelPeriodMs) + 1,
              !.combo = IF currentTime - g.lastSliceTime >= comboTimeout THEN 0
                        ELSE g.combo]

\* variant: the level computed before the game time is accumulated
GameLogicUpdateStaleLevel(g, deltaTime, currentTime) ==
    [g EXCEPT !.gameTime = g.gameTime + deltaTime,
              !.level = (g.gameTime \div LevelPeriodMs) + 1,
              !.combo = IF currentTime - g.lastSliceTime > comboTimeout THEN 0
                        ELSE g.combo]

\* GameLogic.update(deltaTime), deltaTime in ms
GameLogicUpdate(g, deltaTime, currentTime) ==
    LET gameTime1 == g.gameTime + deltaTime
        combo1 == IF currentTime - g.lastSliceTime > comboTimeout THEN 0 ELSE g.combo
    IN  [g EXCEPT !.gameTime = gameTime1,
                  !.level = (gameTime1 \div LevelPeriodMs) + 1,
                  !.combo = combo1]

\* variant: the combo fields are left as they were
GameLogicResetKeepsCombo(g) ==
    [g EXCEPT !.score = 0, !.level = 1, !.foodsSliced = 0, !.gameTime = 0]

GameLogicReset(g) == GameLogicInit

\* history record of one GameLogic call; threw: the landmark detector threw in the
\* frame of the call; detected: the number of hands it returned in that frame
NoOp ==
    [op |-> "none", time |-> 0, deltaTime |-> 0, foodType |-> "", foodCategory |-> "",
     points |-> 0, before |-> GameLogicInit, after |-> GameLogicInit,
     threw |-> FALSE, detected |-> 0]
OpRecord(op, before, after, currentTime) ==
    [NoOp EXCEPT !.op = op, !.time = currentTime, !.before = before, !.after = after]

(***************************************************************************)
(* FoodSpawner                                                             *)
(***************************************************************************)
maxFoods == 15

\* foodTypes, in the order of the selection loop
foodTypes ==
    <<[name |-> "apple", category |-> "fruit", weight |-> 25],
      [name |-> "apple_red", category |-> "fruit", weight |-> 20],
      [name |-> "banana", category |-> "fruit", weight |-> 20],
      [name |-> "peach", category |-> "fruit", weight |-> 20],
      [name |-> "donut", category |-> "dessert", weight |-> 10],
      [name |-> "burger", category |-> "main", weight |-> 3],
      [name |-> "plate", category |-> "tableware", weight |-> 2]>>

\* the weighted selection loop of spawnFood; randomWeight = Math.random() * totalWeight
RECURSIVE SelectFoodType(_, _)
SelectFoodType(randomWeight, i) ==
    IF i > Len(foodTypes) THEN foodTypes[1]
    ELSE IF randomWeight - foodTypes[i].weight <= 0 THEN foodTypes[i]
    ELSE SelectFoodType(randomWeight - foodTypes[i].weight, i + 1)

\* rnd = [weight, x, interval]: the random draws of one update
\* sp = [foods, spawnTimer, spawnInterval, nextUuid]
\* variant: no capacity check
spawnFoodUnguarded(sp, rnd, currentTime) ==
    LET selectedFoodType == SelectFoodType(rnd.weight, 1)
    IN  [sp EXCEPT
            !.foods = Append(sp.foods,
                [uuid |-> sp.nextUuid, mesh |-> TRUE,
                 type |-> selectedFoodType.name,
                 category |-> selectedFoodType.category,
                 position |-> <<rnd.x, 600, 0>>,
                 spawnTime |-> currentTime,
                 velocity |-> <<0, 0, 0>>]),
            !.nextUuid = sp.nextUuid + 1]

spawnFood(sp, rnd, currentTime) ==
    IF Len(sp.foods) >= maxFoods THEN sp
    ELSE LET selectedFoodType == SelectFoodType(rnd.weight, 1)
         IN  [sp EXCEPT
                 !.foods = Append(sp.foods,
                     [uuid |-> sp.nextUuid, mesh |-> TRUE,
                      type |-> selectedFoodType.name,
                      category |-> selectedFoodType.category,
                      position |-> <<rnd.x, 600, 0>>,
                      spawnTime |-> currentTime,
                      velocity |-> <<0, 0, 0>>]),
                 !.nextUuid = sp.nextUuid + 1]

\* one food of the physics loop: gravity, integration (on the grid of hundredths)
MoveFood(food, deltaTime) ==
    LET vy == food.velocity[2] - (180 * deltaTime) \div MsPerSecond
        v == <<food.velocity[1], vy, food.velocity[3]>>
    IN  [food EXCEPT
            !.velocity = v,
            !.position = <<food.position[1] + (v[1] * deltaTime) \div MsPerSecond,
                           food.position[2] + (v[2] * deltaTime) \div MsPerSecond,
                           food.position[3] + (v[3] * deltaTime) \div MsPerSecond>>]

\* variant: only the age ends a food
shouldRemoveByAge(food, currentTime) == currentTime - food.spawnTime > 15000

\* variant: nothing ends a food
shouldRemoveNever(food, currentTime) == FALSE

shouldRemove(food, currentTime) ==
    food.position[2] < -500 \/ currentTime - food.spawnTime > 15000

\* the backwards loop of update: i = length-1 .. 0 (1-based here)
RECURSIVE PhysicsLoop(_, _, _, _)
PhysicsLoop(fds, i, deltaTime, currentTime) ==
    IF i < 1 THEN fds
    ELSE LET food == MoveFood(fds[i], deltaTime)
             moved == [fds EXCEPT ![i] = food]
             kept == IF shouldRemove(food, currentTime)
                     THEN SubSeq(moved, 1, i - 1) \o SubSeq(moved, i + 1, Len(moved))
                     ELSE moved
         IN  PhysicsLoop(kept, i - 1, deltaTime, currentTime)

FoodSpawnerUpdate(sp, deltaTime, rnd, currentTime) ==
    LET timer1 == sp.spawnTimer + deltaTime
        sp1 == IF timer1 >= sp.spawnInterval
               THEN [spawnFood(sp, rnd, currentTime) EXCEPT
                        !.spawnTimer = 0, !.spawnInterval = rnd.interval]
               ELSE [sp EXCEPT !.spawnTimer = timer1]
    IN  [sp1 EXCEPT !.foods = PhysicsLoop(sp1.foods, Len(sp1.foods), deltaTime,
                                          currentTime)]

(***************************************************************************)
(* CollisionDetector                                                       *)
(*                                                                         *)
(* cs = [foods, slicedFoods, boundingBoxCache, totalCollisions,            *)
(*       lastCollisionInfo, lastCollisionTime, velocityThreshold, gl]      *)
(* plus the fields of the pass log (tested, handled, scored), which are    *)
(* history and never read by the operators.  cs.foods is the spawner's     *)
(* array, which handleFoodSlice splices.                                   *)
(***************************************************************************)
collisionCooldown == 200
cacheTimeout == 100
StatusHoldMs == 300         \* clearCollisionStatus keeps the status this long

\* lastCollisionInfo is null or an object: a sequence of at most one record
NoInfo == <<>>

getFoodExpansion(foodType) ==
    CASE foodType = "apple" -> 20
      [] foodType = "apple_red" -> 25
      [] foodType = "banana" -> 25
      [] foodType = "peach" -> 25
      [] foodType = "donut" -> 20
      [] foodType = "burger" -> 15
      [] foodType = "plate" -> 10
      [] OTHER -> 20

\* THREE.Box3.setFromObject: the world box of the mesh at its current position;
\* the extent of a model is asset data, taken as 2 world units each way
setFromObject(food) ==
    [min |-> <<food.position[1] - 200, food.position[2] - 200, food.position[3] - 200>>,
     max |-> <<food.position[1] + 200, food.position[2] + 200, food.position[3] + 200>>]

expandByScalar(box, e) ==
    [min |-> <<box.min[1] - e, box.min[2] - e, box.min[3] - e>>,
     max |-> <<box.max[1] + e, box.max[2] + e, box.max[3] + e>>]

\* THREE.Box3.containsPoint
isPointInBoundingBox(point, box) ==
    ~ (\/ point[1] < box.min[1] \/ point[1] > box.max[1]
       \/ point[2] < box.min[2] \/ point[2] > box.max[2]
       \/ point[3] < box.min[3] \/ point[3] > box.max[3])

\* variant: a cached box is still used when it is exactly cacheTimeout old
getFoodBoundingBoxInclusive(cache, food, currentTime) ==
    IF food.uuid \in DOMAIN cache /\ currentTime - cache[food.uuid].time <= cacheTimeout
    THEN [box |-> cache[food.uuid].boundingBox, cache |-> cache]
    ELSE LET box == expandByScalar(setFromObject(food), getFoodExpansion(food.type))
         IN  [box |-> box,
              cache |-> MapSet(cache, food.uuid,
                               [boundingBox |-> box, time |-> currentTime])]

\* returns the box and the new cache
getFoodBoundingBox(cache, food, currentTime) ==
    IF food.uuid \in DOMAIN cache /\ currentTime - cache[food.uuid].time < cacheTimeout
    THEN [box |-> cache[food.uuid].boundingBox, cache |-> cache]
    ELSE LET box == expandByScalar(setFromObject(food), getFoodExpansion(food.type))
         IN  [box |-> box,
              cache |-> MapSet(cache, food.uuid,
                               [boundingBox |-> box, time |-> currentTime])]

updateCollisionStatus(cs, food, fingertip, wasSliced, currentTime) ==
    [cs EXCEPT !.lastCollisionTime = currentTime,
               !.lastCollisionInfo =
                   <<[foodType |-> food.type, fingertipType |-> fingertip.type,
                      handedness |-> fingertip.handedness,
                      position |-> fingertip.position,
                      velocity |-> fingertip.velocity, wasSliced |-> wasSliced]>>]

clearCollisionStatus(cs, currentTime) ==
    IF cs.lastCollisionInfo # NoInfo /\ currentTime - cs.lastCollisionTime > StatusHoldMs
    THEN [cs EXCEPT !.lastCollisionInfo = NoInfo]
    ELSE cs

\* Array.prototype.indexOf on the spawner's array (1-based; 0 when absent)
IndexOfFood(fds, food) ==
    IF \E i \in 1..Len(fds) : fds[i].uuid = food.uuid
    THEN CHOOSE i \in 1..Len(fds) :
             fds[i].uuid = food.uuid /\ \A k \in 1..(i - 1) : fds[k].uuid # food.uuid
    ELSE 0

\* variant: the sliced food is left in the array
SpliceFoodKeeps(fds, foodIndex) == fds

\* this.foodSpawner.getFoods().splice(foodIndex, 1)
SpliceFood(fds, foodIndex) ==
    SubSeq(fds, 1, foodIndex - 1) \o SubSeq(fds, foodIndex + 1, Len(fds))

\* variant: the slice effect is paid for with a point of the score
spawnSliceEffectsCharged(cs, position, foodType) ==
    IF cs.fingerVisualizer
    THEN [cs EXCEPT !.effects = Append(cs.effects,
                                       [position |-> position, foodType |-> foodType]),
                    !.gl.score = cs.gl.score - 1]
    ELSE cs

\* spawnSliceEffects: fingerVisualizer.createSliceEffect(position, foodType) when a
\* visualizer was given; effects: the particle bursts created in this pass
spawnSliceEffects(cs, position, foodType) ==
    IF cs.fingerVisualizer
    THEN [cs EXCEPT !.effects = Append(cs.effects,
                                       [position |-> position, foodType |-> foodType])]
    ELSE cs

handleFoodSlice(cs, food, fingertip, currentTime) ==
    LET cs1 == [cs EXCEPT !.slicedFoods =
                   MapSet(cs.slicedFoods, food.uuid,
                          [time |-> currentTime, fingertip |-> fingertip.type,
                           handedness |-> fingertip.handedness])]
        cs2 == updateCollisionStatus(cs1, food, fingertip, TRUE, currentTime)
        cs3 == [cs2 EXCEPT !.totalCollisions = cs2.totalCollisions + 1,
                           !.handled = Append(cs2.handled, food.uuid)]
        foodIndex == IndexOfFood(cs3.foods, food)
    IN  IF foodIndex # 0
        THEN LET sliceResult == sliceFood(cs3.gl, food.type, food.category, currentTime)
             IN  spawnSliceEffects(
                     [cs3 EXCEPT
                         !.foods = SpliceFood(cs3.foods, foodIndex),
                         !.gl = sliceResult.gl,
                         !.scored = Append(cs3.scored, food.uuid),
                         !.points = Append(cs3.points, sliceResult.points)],
                     fingertip.position, food.type)
        ELSE cs3

\* variant: the comparison of the velocity gate inverted
CanSliceInverted(fingertip, threshold) == fingertip.velocity <= threshold

\* the velocity gate: fingertip.velocity >= this.velocityThreshold
CanSlice(fingertip, threshold) == fingertip.velocity >= threshold

\* variant: the comparison of the cooldown gate inverted
InCooldownInverted(sliced, food, currentTime) ==
    /\ food.uuid \in DOMAIN sliced
    /\ currentTime - sliced[food.uuid].time > collisionCooldown

\* the cooldown gate: sliceData && (performance.now() - sliceData.time) < collisionCooldown
InCooldown(sliced, food, currentTime) ==
    /\ food.uuid \in DOMAIN sliced
    /\ currentTime - sliced[food.uuid].time < collisionCooldown

\* the inner loop of checkCollisions over the fingertips, from index j
\* r = [cs, collisionDetected]
RECURSIVE FingertipLoop(_, _, _, _, _, _)
FingertipLoop(r, food, box, fingertips, j, currentTime) ==
    IF j > Len(fingertips) THEN r
    ELSE IF isPointInBoundingBox(fingertips[j].position, box)
    THEN IF CanSlice(fingertips[j], r.cs.velocityThreshold)
         THEN [cs |-> handleFoodSlice(r.cs, food, fingertips[j], currentTime),
               collisionDetected |-> TRUE]
         ELSE FingertipLoop(
                  [cs |-> updateCollisionStatus(r.cs, food, fingertips[j], FALSE,
                                                currentTime),
                   collisionDetected |-> TRUE],
                  food, box, fingertips, j + 1, currentTime)
    ELSE FingertipLoop(r, food, box, fingertips, j + 1, currentTime)

\* food.mesh.uuid: reading a property of undefined raises a TypeError
MeshAccessThrows(food) == ~ food.mesh

\* the outer loop `for (const food of foods)`: the array iterator reads foods[i] and
\* the current length at every step.  aliased: the iterated array is the spawner's
\* own array (as in update()), so a splice shifts the elements under the iterator.
\* an error raised in the body ends the loop: cs.threw
RECURSIVE FoodLoop(_, _, _, _, _, _)
FoodLoop(r, fingertips, arr, i, aliased, currentTime) ==
    LET iterated == IF aliased THEN r.cs.foods ELSE arr
    IN  IF i > Len(iterated) THEN r
        ELSE LET food == iterated[i]
             IN  IF MeshAccessThrows(food) THEN [r EXCEPT !.cs.threw = TRUE]
                 ELSE IF InCooldown(r.cs.slicedFoods, food, currentTime)
                 THEN FoodLoop(r, fingertips, arr, i + 1, aliased, currentTime)
                 ELSE LET b == getFoodBoundingBox(r.cs.boundingBoxCache, food,
                                                  currentTime)
                          r1 == [r EXCEPT !.cs.boundingBoxCache = b.cache,
                                          !.cs.tested = r.cs.tested \cup {food.uuid}]
                      IN  FoodLoop(FingertipLoop(r1, food, b.box, fingertips, 1,
                                                 currentTime),
                                   fingertips, arr, i + 1, aliased, currentTime)

checkCollisions(cs, fingertips, arr, aliased, currentTime) ==
    LET r == FoodLoop([cs |-> cs, collisionDetected |-> FALSE], fingertips, arr, 1,
                      aliased, currentTime)
    IN  IF r.cs.threw THEN r.cs
        ELSE IF ~ r.collisionDetected THEN clearCollisionStatus(r.cs, currentTime)
        ELSE r.cs

cleanupSlicedFoods(cs, currentTime) ==
    [cs EXCEPT !.slicedFoods =
        [u \in {x \in DOMAIN cs.slicedFoods :
                   ~ (currentTime - cs.slicedFoods[x].time > collisionCooldown)}
            |-> cs.slicedFoods[u]]]

cleanupBoundingBoxCache(cs, currentTime) ==
    [cs EXCEPT !.boundingBoxCache =
        [u \in {x \in DOMAIN cs.boundingBoxCache :
                   ~ (currentTime - cs.boundingBoxCache[x].time > cacheTimeout)}
            |-> cs.boundingBoxCache[u]]]

\* CollisionDetector.update
CollisionDetectorUpdate(cs, hs, currentTime) ==
    IF ~ hasHands(hs) THEN clearCollisionStatus(cs, currentTime)
    ELSE LET checked == checkCollisions(cs, getAllFingertips(hs), cs.foods, TRUE,
                                        currentTime)
         IN  IF checked.threw THEN checked
             ELSE cleanupBoundingBoxCache(cleanupSlicedFoods(checked, currentTime),
                                          currentTime)

\* setVelocityThreshold: Math.max(0, Math.min(3.0, threshold))
setVelocityThreshold(threshold) == Max(0, Min(3 * VelPerUnit, threshold))

(***************************************************************************)
(* The pass log (history): what the latest collision pass saw and did      *)
(***************************************************************************)
Uuids(fds) == [i \in 1..Len(fds) |-> fds[i].uuid]
Range(q) == {q[i] : i \in 1..Len(q)}

NoPass ==
    [ran |-> FALSE, viaUpdate |-> FALSE, fingertips |-> <<>>, given |-> <<>>,
     live |-> <<>>,
     liveAfter |-> <<>>,
     volume |-> EmptyMap, cooling |-> {}, tested |-> {}, handled |-> <<>>,
     scored |-> <<>>, threshold |-> 0, glBefore |-> GameLogicInit,
     glAfter |-> GameLogicInit, infoBefore |-> NoInfo, infoAfter |-> NoInfo,
     statusTimeBefore |-> 0, statusTimeAfter |-> 0, dwell |-> EmptyMap,
     threw |-> FALSE, meshless |-> {}, effects |-> <<>>, time |-> 0,
     cacheBefore |-> EmptyMap, position |-> EmptyMap]

\* the fingertips inside the volume the detector uses for food u in this pass
Inside(p, u) ==
    {j \in 1..Len(p.fingertips) :
        isPointInBoundingBox(p.fingertips[j].position, p.volume[u])}

\* u is touched in this pass, and only by fingertips below the threshold
SlowTouch(p, u, threshold) ==
    /\ u \notin p.cooling
    /\ Inside(p, u) # {}
    /\ \A j \in Inside(p, u) : p.fingertips[j].velocity < threshold

\* some fingertip at or above the threshold is inside the volume of u
FastTouch(p, u, threshold) ==
    /\ u \notin p.cooling
    /\ \E j \in Inside(p, u) : p.fingertips[j].velocity >= threshold

\* the log of one checkCollisions(fingertips, arr) call that turned cs0 into cs1
PassLog(cs0, cs1, fingertips, arr, viaUpdate, currentTime, dwell0) ==
    LET given == Uuids(arr)
        volume == [u \in {arr[i].uuid : i \in {k \in 1..Len(arr) : arr[k].mesh}} |->
                     getFoodBoundingBox(cs0.boundingBoxCache,
                         arr[CHOOSE i \in 1..Len(arr) : arr[i].uuid = u],
                         currentTime).box]
        cooling == {u \in Range(given) :
                       /\ u \in DOMAIN cs0.slicedFoods
                       /\ cs0.slicedFoods[u].time > currentTime - collisionCooldown}
        p == [ran |-> TRUE, viaUpdate |-> viaUpdate, fingertips |-> fingertips,
              given |-> given,
              live |-> Uuids(cs0.foods), liveAfter |-> Uuids(cs1.foods),
              volume |-> volume, cooling |-> cooling,
              tested |-> cs1.tested, handled |-> cs1.handled, scored |-> cs1.scored,
              threshold |-> cs0.velocityThreshold, glBefore |-> cs0.gl,
              glAfter |-> cs1.gl, infoBefore |-> cs0.lastCollisionInfo,
              infoAfter |-> cs1.lastCollisionInfo,
              statusTimeBefore |-> cs0.lastCollisionTime,
              statusTimeAfter |-> cs1.lastCollisionTime, dwell |-> EmptyMap,
              threw |-> cs1.threw,
              meshless |-> {i \in 1..Len(arr) : ~ arr[i].mesh},
              effects |-> cs1.effects, time |-> currentTime,
              cacheBefore |-> cs0.boundingBoxCache,
              position |-> [u \in DOMAIN volume |->
                               arr[CHOOSE i \in 1..Len(arr) : arr[i].uuid = u].position]]
    IN  [p EXCEPT !.dwell =
            [u \in {x \in DOMAIN volume : SlowTouch(p, x, cs0.velocityThreshold)} |->
                IF u \in DOMAIN dwell0 THEN dwell0[u] + 1 ELSE 1]]

\* the detector state as a record, with an empty log
DetectorState ==
    [foods |-> foods, slicedFoods |-> slicedFoods,
     boundingBoxCache |-> boundingBoxCache, totalCollisions |-> totalCollisions,
     lastCollisionInfo |-> lastCollisionInfo, lastCollisionTime |-> lastCollisionTime,
     velocityThreshold |-> velocityThreshold, gl |-> gl,
     tested |-> {}, handled |-> <<>>, scored |-> <<>>, points |-> <<>>,
     threw |-> FALSE,
     fingerVisualizer |-> fingerVisualizer, effects |-> <<>>]

\* sliceEvents after a pass: the time of the pass for every uuid in handled
SliceEventsAfter(se, handled, currentTime) ==
    LET RECURSIVE Add(_, _)
        Add(m, i) ==
            IF i > Len(handled) THEN m
            ELSE Add(MapSet(m, handled[i],
                            Append(IF handled[i] \in DOMAIN m THEN m[handled[i]]
                                   ELSE <<>>, currentTime)),
                     i + 1)
    IN  Add(se, 1)

\* sliceCalls after a pass: one more call for every uuid in scored
SliceCallsAfter(sc, scored) ==
    [u \in (DOMAIN sc) \cup Range(scored) |->
        (IF u \in DOMAIN sc THEN sc[u] ELSE 0)
        + Cardinality({i \in 1..Len(scored) : scored[i] = u})]

(***************************************************************************)
(* Initial state: the objects as their constructors leave them             *)
(***************************************************************************)
\* velocityThreshold as the constructors of the two revisions of
\* CollisionDetector set it: 0.3 and 0
DefaultVelocityThresholds == {(3 * VelPerUnit) \div 10, 0}
InitialSpawnInterval == 800

GameInit(thresholds, initialFoods) ==
    /\ lastTime = 0
    /\ foods = initialFoods
    /\ spawnTimer = 0
    /\ spawnInterval = InitialSpawnInterval
    /\ nextUuid = Len(initialFoods) + 1
    /\ velocityThreshold \in thresholds
    /\ slicedFoods = EmptyMap
    /\ boundingBoxCache = EmptyMap
    /\ totalCollisions = 0
    /\ lastCollisionInfo = NoInfo
    /\ lastCollisionTime = 0
    /\ gl = GameLogicInit
    /\ pass = NoPass
    /\ sliceCalls = EmptyMap
    /\ sliceEvents = EmptyMap
    /\ awarded = 0
    /\ configured = FALSE
    /\ lastOp = NoOp
    /\ scheduled = TRUE

(***************************************************************************)
(* TrackerSpec: HandDetector.update called frame after frame, with up to   *)
(* two hands.  SmoothingSpec: the same with one hand and longer runs.      *)
(***************************************************************************)
TrackerSpecInit ==
    /\ now \in StartTimes
    /\ frames = 0
    /\ TrackerInit
    /\ GameInit({(3 * VelPerUnit) \div 10}, <<>>)
    /\ fingerVisualizer = TRUE

TrackerFrame ==
    \E d \in TrackerDeltas, detection \in DetectionsOver(TrackerLandmarks) \cup {Throws} :
        /\ frames < MaxTrackerFrames
        /\ frames' = frames + 1
        /\ now' = now + d
        /\ TrackerStep(detection, now + d)
        /\ UNCHANGED gameVars

TrackerNext == TrackerFrame
TrackerSpec == TrackerSpecInit /\ [][TrackerNext]_vars

OneHandDetections ==
    {Returns(<<>>)} \cup {Returns(<<HandResult("Right", lm)>>) : lm \in TrackerLandmarks}

SmoothingFrame ==
    \E d \in SmoothingDeltas, detection \in OneHandDetections :
        /\ frames < MaxSmoothingFrames
        /\ frames' = frames + 1
        /\ now' = now + d
        /\ TrackerStep(detection, now + d)
        /\ UNCHANGED gameVars

SmoothingNext == SmoothingFrame
SmoothingSpec == TrackerSpecInit /\ [][SmoothingNext]_vars

(***************************************************************************)
(* ConsistencySpec: HandDetector.update at a steady frame rate, long       *)
(* enough for the histories to be trimmed, with hands that come and go.    *)
(***************************************************************************)
ConsistencyDeltas == {100}

ConsistencyDetections ==
    {Returns(<<>>)}
    \cup {Returns(<<HandResult("Right", lm)>>) : lm \in TrackerLandmarks}
    \cup {Returns(<<HandResult("Right", l[1]), HandResult("Left", l[2])>>) :
            l \in {q \in TrackerLandmarks \X TrackerLandmarks : q[1] # q[2]}}

ConsistencyFrame ==
    \E d \in ConsistencyDeltas, detection \in ConsistencyDetections :
        /\ frames < MaxConsistencyFrames
        /\ frames' = frames + 1
        /\ now' = now + d
        /\ TrackerStep(detection, now + d)
        /\ UNCHANGED gameVars

ConsistencyNext == ConsistencyFrame
ConsistencySpec == TrackerSpecInit /\ [][ConsistencyNext]_vars

(***************************************************************************)
(* DetectorSpec: the CollisionDetector alone, driven through its public    *)
(* methods.  The hand detector is a stub that reports a chosen hand list;  *)
(* the spawner holds two foods at rest.  update() iterates the spawner's   *)
(* own array; checkCollisions(fingertips, foods) is also called directly   *)
(* with a list the caller obtained earlier, so a food can be in the list   *)
(* it is given while its cooldown record is fresh.                         *)
(***************************************************************************)
DetectorFoods ==
    <<[uuid |-> 1, mesh |-> TRUE, type |-> "apple_red", category |-> "fruit",
       position |-> <<0, 0, 0>>, spawnTime |-> 1000, velocity |-> <<0, 0, 0>>],
      [uuid |-> 2, mesh |-> TRUE, type |-> "burger", category |-> "main",
       position |-> <<300, 0, 0>>, spawnTime |-> 1000, velocity |-> <<0, 0, 0>>]>>

\* inside food 1 only, inside both, inside food 2 only
StubPoints == {<<0, 0, 0>>, <<150, 0, 0>>, <<400, 0, 0>>}
\* 0.15 and 0.3 world units per second: below and at the threshold 0.3
StubVelocities == {(15 * VelPerUnit) \div 100, (3 * VelPerUnit) \div 10}

StubHand(i, w, p, v) ==
    [id |-> i, handedness |-> w,
     fingertips |-> <<[position |-> p, type |-> "index", velocity |-> v,
                       id |-> FingertipId(i, IndexFingertip)]>>]

StubHands ==
    {<<>>}
    \cup {<<StubHand(0, "Right", p, v)>> : p \in StubPoints, v \in StubVelocities}
    \cup {<<StubHand(0, "Right", <<0, 0, 0>>, v[1]), StubHand(1, "Left", <<400, 0, 0>>, v[2])>> :
            v \in StubVelocities \X StubVelocities}

DetectorDeltas == {100, 250}

DetectorInit ==
    /\ now \in StartTimes
    /\ frames = 0
    /\ TrackerInit
    /\ GameInit({(3 * VelPerUnit) \div 10}, DetectorFoods)
    /\ fingerVisualizer \in BOOLEAN

\* the detector's fields after a call, and the history of the call
DetectorAssign(cs0, cs1, ran, fingertips, arr, viaUpdate, currentTime) ==
    /\ foods' = cs1.foods
    /\ slicedFoods' = cs1.slicedFoods
    /\ boundingBoxCache' = cs1.boundingBoxCache
    /\ totalCollisions' = cs1.totalCollisions
    /\ lastCollisionInfo' = cs1.lastCollisionInfo
    /\ lastCollisionTime' = cs1.lastCollisionTime
    /\ pass' = IF ran
               THEN PassLog(cs0, cs1, fingertips, arr, viaUpdate, currentTime,
                            pass.dwell)
               ELSE NoPass
    /\ sliceCalls' = SliceCallsAfter(sliceCalls, cs1.scored)
    /\ sliceEvents' = SliceEventsAfter(sliceEvents, cs1.handled, currentTime)
    /\ awarded' = awarded + SumSeq(cs1.points)

\* collisionDetector.update() with the stub reporting hs
DetectorUpdate ==
    \E d \in DetectorDeltas, hs \in StubHands :
        \E currentTime \in {now + d}, cs0 \in {DetectorState} :
        \E cs1 \in {CollisionDetectorUpdate(cs0, hs, currentTime)} :
            /\ frames < MaxDetectorCalls
            /\ frames' = frames + 1
            /\ now' = currentTime
            /\ hands' = hs
            /\ DetectorAssign(cs0, cs1, hasHands(hs), getAllFingertips(hs), cs0.foods,
                              TRUE, currentTime)
            /\ gl' = cs1.gl
            /\ UNCHANGED <<previousFingertips, velocityHistory, track, ident, lastTime,
                           spawnTimer, spawnInterval, nextUuid, velocityThreshold,
                           configured, lastOp, scheduled, fingerVisualizer>>

\* collisionDetector.checkCollisions(fingertips, foods) with the list obtained at start
DetectorCheck ==
    \E d \in DetectorDeltas, hs \in StubHands \ {<<>>} :
        \E currentTime \in {now + d}, cs0 \in {DetectorState} :
        \E cs1 \in {checkCollisions(cs0, getAllFingertips(hs), DetectorFoods, FALSE,
                                    currentTime)} :
            /\ frames < MaxDetectorCalls
            /\ frames' = frames + 1
            /\ now' = currentTime
            /\ hands' = hs
            /\ DetectorAssign(cs0, cs1, TRUE, getAllFingertips(hs), DetectorFoods,
                              FALSE, currentTime)
            /\ gl' = cs1.gl
            /\ UNCHANGED <<previousFingertips, velocityHistory, track, ident, lastTime,
                           spawnTimer, spawnInterval, nextUuid, velocityThreshold,
                           configured, lastOp, scheduled, fingerVisualizer>>

DetectorNext == DetectorUpdate \/ DetectorCheck
DetectorSpec == DetectorInit /\ [][DetectorNext]_vars

(***************************************************************************)
(* MalformedSpec: the CollisionDetector of DetectorSpec over a food list   *)
(* into which an entry without mesh was pushed (getFoods() hands out the   *)
(* spawner's own array), between the two foods at rest.                    *)
(***************************************************************************)
MeshlessFood ==
    [uuid |-> 0, mesh |-> FALSE, type |-> "banana", category |-> "fruit",
     position |-> <<0, 0, 0>>, spawnTime |-> 1000, velocity |-> <<0, 0, 0>>]

MalformedFoods == <<DetectorFoods[1], MeshlessFood, DetectorFoods[2]>>

MalformedInit ==
    /\ now \in StartTimes
    /\ frames = 0
    /\ TrackerInit
    /\ GameInit({(3 * VelPerUnit) \div 10}, MalformedFoods)
    /\ fingerVisualizer = TRUE

MalformedNext == DetectorUpdate
MalformedSpec == MalformedInit /\ [][MalformedNext]_vars

(***************************************************************************)
(* Spec: the game.  One Frame is one run of gameLoop -> update(deltaTime): *)
(* spawner, hand detector, collision detector, game logic, in that order.  *)
(* Every performance.now() of a frame reads the frame's time.              *)
(***************************************************************************)
\* normalized landmarks whose world positions are (0,3,0) and (0,2.7,0)
GameLandmarks == {<<400, 0, 0>>, <<400, 30, 0>>}
GameDetections ==
    {Returns(<<>>), Throws}
    \cup {Returns(<<HandResult("Right", lm)>>) : lm \in GameLandmarks}
GameDeltas == {500}
\* Math.random() draws of one spawner update: type selection (apple_red, burger),
\* spawnX, and the next spawn interval (0.5 s)
SpawnDraws == [weight : {45, 98}, x : {0}, interval : {500}]
\* the keys 1, 2, 3: adjustCollisionSensitivity(0.1), (0.3), (0.6)
Sensitivities == {VelPerUnit \div 10, (3 * VelPerUnit) \div 10, (6 * VelPerUnit) \div 10}

Init ==
    /\ now \in StartTimes
    /\ frames = 0
    /\ TrackerInit
    /\ GameInit(DefaultVelocityThresholds, <<>>)
    /\ fingerVisualizer = TRUE

\* variant: the collision detector reads the hands of the frame before
HandsAtCollisionStale(previous, updated) == previous

\* update(deltaTime) calls handDetector.update() before collisionDetector.update():
\* hasHands() and getAllFingertips() read the hands the hand detector has just stored
HandsAtCollision(previous, updated) == updated

Frame ==
    \E d \in GameDeltas, detection \in GameDetections, rnd \in SpawnDraws :
        \E currentTime \in {now + d}, deltaTime \in {now + d - lastTime} :
        \E sp \in {FoodSpawnerUpdate([foods |-> foods, spawnTimer |-> spawnTimer,
                                      spawnInterval |-> spawnInterval,
                                      nextUuid |-> nextUuid],
                                     deltaTime, rnd, currentTime)},
           hd \in {HandDetectorUpdate([hands |-> hands,
                                       previousFingertips |-> previousFingertips,
                                       velocityHistory |-> velocityHistory],
                                      detection, currentTime)} :
        \E cs0 \in {[DetectorState EXCEPT !.foods = sp.foods]},
           seen \in {HandsAtCollision(hands, hd.hands)} :
        \E cs1 \in {CollisionDetectorUpdate(cs0, seen, currentTime)} :
            /\ scheduled
            /\ scheduled' = TRUE
            /\ frames < MaxGameFrames
            /\ frames' = frames + 1
            /\ now' = currentTime
            /\ lastTime' = currentTime
            /\ spawnTimer' = sp.spawnTimer
            /\ spawnInterval' = sp.spawnInterval
            /\ nextUuid' = sp.nextUuid
            /\ hands' = hd.hands
            /\ previousFingertips' = hd.previousFingertips
            /\ velocityHistory' = hd.velocityHistory
            /\ track' = TrackAfter(track, detection, currentTime)
            /\ ident' = IdentAfter(ident, detection)
            /\ DetectorAssign(cs0, cs1, hasHands(seen), getAllFingertips(seen),
                              sp.foods, TRUE, currentTime)
            /\ gl' = GameLogicUpdate(cs1.gl, deltaTime, currentTime)
            /\ lastOp' = [OpRecord("update", cs1.gl,
                                    GameLogicUpdate(cs1.gl, deltaTime, currentTime),
                                    currentTime) EXCEPT !.deltaTime = deltaTime,
                                                        !.threw = detection.threw,
                                                        !.detected =
                                                            Len(detection.results)]
            /\ UNCHANGED <<velocityThreshold, configured, fingerVisualizer>>

\* one run of gameLoop whose update(deltaTime) throws in its first call,
\* sceneManager.update(deltaTime): lastTime is already stored, the rest of update,
\* render() and requestAnimationFrame(gameLoop) are not reached
FrameThrows ==
    \E d \in GameDeltas :
        /\ scheduled
        /\ scheduled' = FALSE
        /\ frames < MaxGameFrames
        /\ frames' = frames + 1
        /\ now' = now + d
        /\ lastTime' = now + d
        /\ UNCHANGED <<trackerVars, foods, spawnTimer, spawnInterval, nextUuid,
                       velocityThreshold, slicedFoods, boundingBoxCache,
                       totalCollisions, lastCollisionInfo, lastCollisionTime, gl, pass,
                       sliceCalls, sliceEvents, awarded, configured, lastOp,
                       fingerVisualizer>>

\* variant: the slice cooldown map survives the reset
resetGameKeepsCooldowns(arr, g, sliced) ==
    [foods |-> <<>>, gl |-> GameLogicReset(g), slicedFoods |-> sliced,
     totalCollisions |-> 0]

\* resetGame(): foods.length = 0, gameLogic.reset(), slicedFoods.clear(),
\* totalCollisions = 0
resetGame(arr, g, sliced) ==
    [foods |-> <<>>, gl |-> GameLogicReset(g), slicedFoods |-> EmptyMap,
     totalCollisions |-> 0]

\* key r: resetGame()
ResetGame ==
    \E r \in {resetGame(foods, gl, slicedFoods)} :
    /\ frames < MaxGameFrames
    /\ frames' = frames + 1
    /\ foods' = r.foods
    /\ gl' = r.gl
    /\ slicedFoods' = r.slicedFoods
    /\ totalCollisions' = r.totalCollisions
    /\ lastOp' = OpRecord("reset", gl, r.gl, now)
    /\ awarded' = 0
    /\ UNCHANGED <<now, trackerVars, lastTime, spawnTimer, spawnInterval, nextUuid,
                   velocityThreshold, boundingBoxCache, lastCollisionInfo,
                   lastCollisionTime, pass, sliceCalls, sliceEvents, configured,
                   scheduled, fingerVisualizer>>

\* keys 1, 2, 3: adjustCollisionSensitivity(sensitivity)
AdjustCollisionSensitivity ==
    \E sensitivity \in Sensitivities :
        /\ frames < MaxGameFrames
        /\ frames' = frames + 1
        /\ velocityThreshold' = setVelocityThreshold(sensitivity)
        /\ configured' = TRUE
        /\ UNCHANGED <<now, trackerVars, lastTime, foods, spawnTimer, spawnInterval,
                       nextUuid, slicedFoods, boundingBoxCache, totalCollisions,
                       lastCollisionInfo, lastCollisionTime, gl, pass, sliceCalls,
                       sliceEvents, awarded, lastOp, scheduled, fingerVisualizer>>

Next == Frame \/ FrameThrows \/ ResetGame \/ AdjustCollisionSensitivity
Spec == Init /\ [][Next]_vars

(***************************************************************************)
(* SpawnerSpec: the food list under its three writers.  One SpawnerFrame   *)
(* is foodSpawner.update, collisionDetector.update and gameLogic.update in *)
(* the order of update(deltaTime), with a stub hand detector; SpawnerReset *)
(* is resetGame.  The list starts empty, or one short of maxFoods with     *)
(* foods placed at the spawn height (the array is handed out by            *)
(* getFoods(), which is how the capacity check of spawnFood comes to act). *)
(***************************************************************************)
\* a frame after 1 s, a frame after 50 ms
SpawnerDeltas == {1000, 50}
HoveringFood(u) ==
    [uuid |-> u, mesh |-> TRUE, type |-> "apple", category |-> "fruit",
     position |-> <<0, 600, 0>>, spawnTime |-> 1000, velocity |-> <<0, 0, 0>>]
AlmostFull == [u \in 1..(maxFoods - 1) |-> HoveringFood(u)]
\* no hand, or one hand whose index fingertip is at (0, 0.6, 0) at 0.3 units/s
SpawnerHands ==
    {<<>>, <<StubHand(0, "Right", <<0, 60, 0>>, (3 * VelPerUnit) \div 10)>>}

SpawnerInit ==
    /\ now \in StartTimes
    /\ frames = 0
    /\ TrackerInit
    /\ \E initialFoods \in {<<>>, AlmostFull} :
          GameInit({(3 * VelPerUnit) \div 10}, initialFoods)
    /\ fingerVisualizer = TRUE

SpawnerFrame ==
    \E d \in SpawnerDeltas, hs \in SpawnerHands, rnd \in SpawnDraws :
        \E currentTime \in {now + d} :
        \E sp \in {FoodSpawnerUpdate([foods |-> foods, spawnTimer |-> spawnTimer,
                                      spawnInterval |-> spawnInterval,
                                      nextUuid |-> nextUuid],
                                     d, rnd, currentTime)} :
        \E cs0 \in {[DetectorState EXCEPT !.foods = sp.foods]} :
        \E cs1 \in {CollisionDetectorUpdate(cs0, hs, currentTime)} :
            /\ frames < MaxSpawnerFrames
            /\ frames' = frames + 1
            /\ now' = currentTime
            /\ lastTime' = currentTime
            /\ spawnTimer' = sp.spawnTimer
            /\ spawnInterval' = sp.spawnInterval
            /\ nextUuid' = sp.nextUuid
            /\ hands' = hs
            /\ DetectorAssign(cs0, cs1, hasHands(hs), getAllFingertips(hs), sp.foods,
                              TRUE, currentTime)
            /\ gl' = GameLogicUpdate(cs1.gl, d, currentTime)
            /\ lastOp' = [OpRecord("update", cs1.gl,
                                    GameLogicUpdate(cs1.gl, d, currentTime),
                                    currentTime) EXCEPT !.deltaTime = d,
                                                        !.detected = Len(hs)]
            /\ UNCHANGED <<previousFingertips, velocityHistory, track, ident,
                           velocityThreshold, configured, scheduled, fingerVisualizer>>

SpawnerReset ==
    \E r \in {resetGame(foods, gl, slicedFoods)} :
    /\ frames < MaxSpawnerFrames
    /\ frames' = frames + 1
    /\ foods' = r.foods
    /\ gl' = r.gl
    /\ slicedFoods' = r.slicedFoods
    /\ totalCollisions' = r.totalCollisions
    /\ lastOp' = OpRecord("reset", gl, r.gl, now)
    /\ awarded' = 0
    /\ UNCHANGED <<now, trackerVars, lastTime, spawnTimer, spawnInterval, nextUuid,
                   velocityThreshold, boundingBoxCache, lastCollisionInfo,
                   lastCollisionTime, pass, sliceCalls, sliceEvents, configured,
                   scheduled, fingerVisualizer>>

SpawnerNext == SpawnerFrame \/ SpawnerReset
SpawnerSpec == SpawnerInit /\ [][SpawnerNext]_vars

(***************************************************************************)
(* ScoreSpec: the GameLogic alone, driven through update, sliceFood and    *)
(* reset.  It starts in a state a session reaches: some game time played,  *)
(* a combo running whose last slice is the present instant.                *)
(***************************************************************************)
\* gameTime played so far: none, just under 30 s, 60 s
ScoreGameTimes == {0, 29 * 1000, 60 * 1000}
ScoreCombos == {0, 2, 4, 10}
ScoreDeltas == {1000, 30 * 1000}
\* a deltaTime below zero, as a caller whose two time readings are out of order passes
NegativeDeltas == {0 - 1000}
\* the (type, category) pairs of the spawner, and a pair GameLogic has no entry for
SliceInputs ==
    {[name |-> foodTypes[i].name, category |-> foodTypes[i].category] :
        i \in 1..Len(foodTypes)}
    \cup {[name |-> "cake", category |-> "pastry"]}

ScoreInit ==
    /\ now \in StartTimes
    /\ frames = 0
    /\ TrackerInit
    /\ lastTime = 0
    /\ foods = <<>>
    /\ spawnTimer = 0
    /\ spawnInterval = InitialSpawnInterval
    /\ nextUuid = 1
    /\ velocityThreshold = (3 * VelPerUnit) \div 10
    /\ slicedFoods = EmptyMap
    /\ boundingBoxCache = EmptyMap
    /\ totalCollisions = 0
    /\ lastCollisionInfo = NoInfo
    /\ lastCollisionTime = 0
    /\ \E g \in ScoreGameTimes, c \in ScoreCombos :
          gl = [score |-> 0, level |-> (g \div LevelPeriodMs) + 1, foodsSliced |-> c,
                gameTime |-> g, combo |-> c,
                lastSliceTime |-> IF c = 0 THEN 0 ELSE now]
    /\ pass = NoPass
    /\ sliceCalls = EmptyMap
    /\ sliceEvents = EmptyMap
    /\ awarded = 0
    /\ configured = FALSE
    /\ lastOp = NoOp
    /\ scheduled = TRUE
    /\ fingerVisualizer = TRUE

scoreFrame ==
    <<trackerVars, lastTime, foods, spawnTimer, spawnInterval, nextUuid,
      velocityThreshold, slicedFoods, boundingBoxCache, totalCollisions,
      lastCollisionInfo, lastCollisionTime, pass, sliceCalls, sliceEvents, configured,
      scheduled, fingerVisualizer>>

\* gameLogic.sliceFood(foodType, foodCategory)
ScoreSlice ==
    \E f \in SliceInputs :
        \E r \in {sliceFood(gl, f.name, f.category, now)} :
            /\ frames < MaxScoreSteps
            /\ frames' = frames + 1
            /\ gl' = r.gl
            /\ lastOp' = [OpRecord("sliceFood", gl, r.gl, now) EXCEPT
                             !.foodType = f.name, !.foodCategory = f.category,
                             !.points = r.points]
            /\ awarded' = awarded + r.points
            /\ UNCHANGED <<now, scoreFrame>>

\* gameLogic.update(deltaTime), deltaTime after the previous call
ScoreTick ==
    \E d \in ScoreDeltas :
        /\ frames < MaxScoreSteps
        /\ frames' = frames + 1
        /\ now' = now + d
        /\ gl' = GameLogicUpdate(gl, d, now + d)
        /\ lastOp' = [OpRecord("update", gl, GameLogicUpdate(gl, d, now + d), now + d)
                         EXCEPT !.deltaTime = d]
        /\ UNCHANGED <<awarded, scoreFrame>>

\* gameLogic.update(deltaTime) with deltaTime < 0, at the instant of the previous call
ScoreTickBack ==
    \E d \in NegativeDeltas :
        /\ frames < MaxScoreSteps
        /\ frames' = frames + 1
        /\ gl' = GameLogicUpdate(gl, d, now)
        /\ lastOp' = [OpRecord("update", gl, GameLogicUpdate(gl, d, now), now)
                         EXCEPT !.deltaTime = d]
        /\ UNCHANGED <<now, awarded, scoreFrame>>

\* gameLogic.reset()
ScoreReset ==
    /\ frames < MaxScoreSteps
    /\ frames' = frames + 1
    /\ gl' = GameLogicReset(gl)
    /\ lastOp' = OpRecord("reset", gl, GameLogicReset(gl), now)
    /\ awarded' = 0
    /\ UNCHANGED <<now, scoreFrame>>

ScoreNext == ScoreSlice \/ ScoreTick \/ ScoreTickBack \/ ScoreReset
ScoreSpec == ScoreInit /\ [][ScoreNext]_vars

(***************************************************************************)
(* Properties of the collision detector                                    *)
(***************************************************************************)
\* C1: GameLogic.sliceFood is called at most once for each spawned food (mesh uuid),
\* and once it has been called the food is not in the spawner's live list.
C1_SlicedAtMostOnce ==
    \A u \in DOMAIN sliceCalls :
        /\ sliceCalls[u] <= 1
        /\ u \notin Range(Uuids(foods))

C1_Witness ==
    \E u \in DOMAIN sliceCalls :
        /\ sliceCalls[u] = 1
        /\ u \in Range(pass.scored)
        /\ u \in Range(pass.live)
        /\ foods # <<>>
        /\ velocityThreshold > 0

\* C2: a food touched only by fingertips strictly below velocityThreshold is not
\* sliced, however many passes in a row it is touched: it stays in the live list;
\* and when no fingertip at or above the threshold is inside any food, score, combo
\* and foodsSliced are unchanged and the contact is recorded with wasSliced = false.
C2_SlowNeverSlices ==
    pass.ran =>
        /\ \A u \in Range(pass.given) :
              SlowTouch(pass, u, pass.threshold) =>
                  /\ u \notin Range(pass.handled)
                  /\ u \in Range(pass.live) => u \in Range(pass.liveAfter)
        /\ ( /\ \E u \in Range(pass.given) : SlowTouch(pass, u, pass.threshold)
             /\ \A u \in Range(pass.given) : ~ FastTouch(pass, u, pass.threshold) )
           => /\ pass.glAfter.score = pass.glBefore.score
              /\ pass.glAfter.combo = pass.glBefore.combo
              /\ pass.glAfter.foodsSliced = pass.glBefore.foodsSliced
              /\ pass.infoAfter # NoInfo
              /\ pass.infoAfter[1].wasSliced = FALSE

C2_Witness ==
    /\ pass.ran
    /\ pass.threshold > 0
    /\ \E u \in DOMAIN pass.dwell :
          /\ pass.dwell[u] >= 3
          /\ u \in Range(pass.liveAfter)
          /\ \E j \in Inside(pass, u) : pass.fingertips[j].velocity > 0
    /\ pass.infoAfter # NoInfo
    /\ pass.infoAfter[1].wasSliced = FALSE

\* C3: with the default configuration (setVelocityThreshold never called) a food
\* touched only by fingertips whose reported velocity is 0 is not sliced.
C3_HoverIsTouch ==
    (pass.ran /\ ~ configured) =>
        \A u \in Range(pass.given) :
            ( /\ u \notin pass.cooling
              /\ Inside(pass, u) # {}
              /\ \A j \in Inside(pass, u) : pass.fingertips[j].velocity = 0 )
            => /\ u \notin Range(pass.handled)
               /\ u \in Range(pass.liveAfter)

\* C4: a food whose cooldown record is younger than collisionCooldown is skipped by
\* checkCollisions: it is not tested, not sliced, and causes no status update, also
\* when it is in the list given and a fast fingertip is inside its volume; two slice
\* events of one food are at least collisionCooldown apart.
C4_CooldownSkips ==
    /\ pass.ran =>
          /\ \A u \in pass.cooling :
                /\ u \notin pass.tested
                /\ u \notin Range(pass.handled)
                /\ u \notin Range(pass.scored)
          /\ (\A u \in Range(pass.given) : Inside(pass, u) # {} => u \in pass.cooling)
             => /\ pass.statusTimeAfter = pass.statusTimeBefore
                /\ pass.infoAfter \in {pass.infoBefore, NoInfo}
    /\ \A u \in DOMAIN sliceEvents :
          \A k \in 1..(Len(sliceEvents[u]) - 1) :
              sliceEvents[u][k + 1] - sliceEvents[u][k] >= collisionCooldown

C4_Witness ==
    /\ pass.ran
    /\ \E u \in pass.cooling :
          /\ u \in Range(pass.given)
          /\ \E j \in Inside(pass, u) : pass.fingertips[j].velocity >= pass.threshold
          /\ u \in DOMAIN sliceEvents
    /\ \E u \in DOMAIN sliceEvents : Len(sliceEvents[u]) = 2

\* C5: in one update every live food that is not in cooldown and has a fingertip at
\* or above the threshold inside its volume is sliced in that update, whatever its
\* place in the list and whatever was sliced before it.
C5_IndependentTargets ==
    (pass.ran /\ pass.viaUpdate) =>
        \A u \in Range(pass.live) :
            FastTouch(pass, u, pass.threshold) =>
                /\ u \in Range(pass.handled)
                /\ u \notin Range(pass.liveAfter)

(***************************************************************************)
(* Properties of the score engine                                          *)
(***************************************************************************)
\* C11: an update tick sets combo to 0 when the time since the last slice is
\* strictly greater than 2000 ms, and leaves combo unchanged when it is at most
\* 2000 ms.
C11_ComboResetIffTimeout ==
    lastOp.op = "update" =>
        LET gap == lastOp.time - lastOp.before.lastSliceTime
        IN  /\ gap > 2000 => lastOp.after.combo = 0
            /\ gap <= 2000 => lastOp.after.combo = lastOp.before.combo

C11_Witness ==
    /\ lastOp.op = "update"
    /\ lastOp.time - lastOp.before.lastSliceTime > 2000
    /\ lastOp.before.combo > 0
    /\ gl.combo = 0

\* C12: level = floor(gameTime / 30 s) + 1 initially, after every update tick and
\* after reset (1 at gameTime 0, 2 at gameTime 30 s); sliceFood changes neither level
\* nor gameTime.
C12_LevelFromGameTime ==
    /\ gl.level = (gl.gameTime \div 30000) + 1
    /\ gl.gameTime = 0 => gl.level = 1
    /\ gl.gameTime = 30000 => gl.level = 2
    /\ lastOp.op = "sliceFood" =>
          /\ lastOp.after.level = lastOp.before.level
          /\ lastOp.after.gameTime = lastOp.before.gameTime

C12_Witness ==
    /\ lastOp.op = "update"
    /\ lastOp.before.level = 1
    /\ gl.gameTime = 30000
    /\ gl.level = 2

\* C13: sliceFood increments combo by exactly 1 and awards base * level when the new
\* combo is 1, and floor(base * level * min(1 + (combo - 1) / 10, 2)) when it is
\* greater than 1.
C13_PointsFormula ==
    lastOp.op = "sliceFood" =>
        LET base == BasePoints(lastOp.foodType, lastOp.foodCategory)
            combo == lastOp.after.combo
            level == lastOp.before.level
        IN  /\ combo = lastOp.before.combo + 1
            /\ lastOp.after.score = lastOp.before.score + lastOp.points
            /\ lastOp.points =
                  IF combo = 1 THEN base * level
                  ELSE (base * level * (IF 10 + (combo - 1) < 20
                                        THEN 10 + (combo - 1) ELSE 20)) \div 10

\* the base value as the scoring rules state it
StatedBase(foodType, foodCategory) ==
    CASE foodType = "burger" -> 60
      [] foodType = "donut" -> 25
      [] foodType = "apple" -> 20
      [] OTHER -> CASE foodCategory = "fruit" -> 15
                    [] foodCategory = "main" -> 50
                    [] foodCategory = "dessert" -> 30
                    [] foodCategory = "tableware" -> 5
                    [] OTHER -> 15

\* C14: the base points are the special bonus of the type when it has one (replacing
\* the category value: donut is 25), otherwise the category value, otherwise 15.
C14_BaseReplacesCategory ==
    (lastOp.op = "sliceFood" /\ lastOp.before.combo = 0) =>
        lastOp.points
            = StatedBase(lastOp.foodType, lastOp.foodCategory) * lastOp.before.level

C14_Witness ==
    /\ lastOp.op = "sliceFood"
    /\ lastOp.before.combo = 0
    /\ lastOp.foodType = "donut"
    /\ lastOp.foodCategory = "dessert"
    /\ lastOp.points = 25 * lastOp.before.level
    /\ lastOp.before.level = 2

\* C15: reset yields score 0, level 1, combo 0, foodsSliced 0, gameTime 0 and
\* lastSliceTime 0, the state of a fresh GameLogic, and a second reset changes
\* nothing.
C15_ResetIsInitial ==
    lastOp.op = "reset" =>
        /\ lastOp.after = [score |-> 0, level |-> 1, foodsSliced |-> 0, gameTime |-> 0,
                           combo |-> 0, lastSliceTime |-> 0]
        /\ lastOp.after = GameLogicInit
        /\ GameLogicReset(lastOp.after) = lastOp.after
        /\ gl = lastOp.after

C15_Witness ==
    /\ lastOp.op = "reset"
    /\ lastOp.before.score > 0
    /\ lastOp.before.combo > 0
    /\ lastOp.before.gameTime > 0
    /\ lastOp.before.lastSliceTime > 0
    /\ gl = GameLogicInit

\* C21: an update with a negative deltaTime has no effect on the elapsed time:
\* gameTime and level are left as they were, and gameTime is never negative.
C21_NegativeDeltaClamped ==
    /\ gl.gameTime >= 0
    /\ (lastOp.op = "update" /\ lastOp.deltaTime < 0) =>
          /\ lastOp.after.gameTime = lastOp.before.gameTime
          /\ lastOp.after.level >= lastOp.before.level

(***************************************************************************)
(* Properties of the game                                                  *)
(***************************************************************************)
\* C16: right after resetGame, called between any two frames, the score state has
\* its initial values, the slice cooldown map is empty and the live food list is
\* empty.
C16_ResetGameClears ==
    lastOp.op = "reset" =>
        /\ gl = [score |-> 0, level |-> 1, foodsSliced |-> 0, gameTime |-> 0,
                 combo |-> 0, lastSliceTime |-> 0]
        /\ slicedFoods = EmptyMap
        /\ foods = <<>>

\* a reset right after a frame that sliced one food and left another one alive
C16_Witness ==
    /\ lastOp.op = "reset"
    /\ lastOp.before.score > 0
    /\ pass.ran
    /\ Len(pass.handled) > 0
    /\ Len(pass.liveAfter) > 0
    /\ pass.statusTimeAfter = now
    /\ foods = <<>>
    /\ slicedFoods = EmptyMap
    /\ gl = GameLogicInit

\* C17: in every frame whose update completes, the collision detector works on the
\* hands the hand detector stored in that same frame, every sliceFood call of the
\* frame is made by the collision pass, and the score tick runs exactly once (the
\* game time grows by exactly the frame's deltaTime).
C17_FrameOrder ==
    [][(now' # now /\ scheduled') =>
          /\ pass'.ran = hasHands(hands')
          /\ pass'.ran => /\ pass'.fingertips = getAllFingertips(hands')
                          /\ pass'.glBefore = gl
                          /\ lastOp'.before = pass'.glAfter
          /\ gl'.foodsSliced - gl.foodsSliced = Len(pass'.scored)
          /\ lastOp'.op = "update"
          /\ lastOp'.deltaTime = now' - lastTime
          /\ lastOp'.before.gameTime = gl.gameTime
          /\ gl'.gameTime = gl.gameTime + lastOp'.deltaTime
          /\ gl' = lastOp'.after]_vars

\* a frame in which the hand just detected slices a food, then the tick
C17_Witness ==
    /\ lastOp.op = "update"
    /\ lastOp.time = now
    /\ ~ lastOp.threw
    /\ pass.ran
    /\ pass.fingertips = getAllFingertips(hands)
    /\ Len(pass.scored) > 0
    /\ lastOp.before = pass.glAfter
    /\ gl.gameTime = pass.glBefore.gameTime + lastOp.deltaTime

\* C22: in a frame for which the detector returns no landmarks, the hand list, the
\* fingertip list and both tracking maps are empty after processHandResults, and the
\* collision update of the frame changes neither the food list (it is what the
\* spawner left) nor the score state.
C22_NoLandmarksNoEffect ==
    [][(now' # now /\ scheduled' /\ ~ lastOp'.threw /\ lastOp'.detected = 0) =>
          /\ hands' = <<>>
          /\ getAllFingertips(hands') = <<>>
          /\ previousFingertips' = EmptyMap
          /\ velocityHistory' = EmptyMap
          /\ ~ pass'.ran
          /\ lastOp'.before = gl
          /\ sliceCalls' = sliceCalls
          /\ \E rnd \in SpawnDraws :
                foods' = FoodSpawnerUpdate([foods |-> foods, spawnTimer |-> spawnTimer,
                                            spawnInterval |-> spawnInterval,
                                            nextUuid |-> nextUuid],
                                           lastOp'.deltaTime, rnd, now').foods]_vars

\* a frame without landmarks after frames in which a hand was tracked and sliced
C22_Witness ==
    /\ lastOp.op = "update"
    /\ lastOp.time = now
    /\ ~ lastOp.threw
    /\ lastOp.detected = 0
    /\ lastOp.before.score > 0
    /\ foods # <<>>
    /\ hands = <<>>
    /\ previousFingertips = EmptyMap
    /\ velocityHistory = EmptyMap
    /\ ~ pass.ran

\* C24: a CollisionDetector built with a visualizer and one built with
\* fingerVisualizer = null, taken through the same call from the same core state,
\* end with the same food list, cooldown map and score state; from equal initial
\* states they therefore agree after every frame.
C24_VisualizerIsTransparent ==
    [][\A twin0 \in {[DetectorState EXCEPT !.fingerVisualizer = ~ fingerVisualizer]} :
       \A twin1 \in {IF pass'.ran /\ ~ pass'.viaUpdate
                      THEN checkCollisions(twin0, getAllFingertips(hands'),
                                           DetectorFoods, FALSE, now')
                      ELSE CollisionDetectorUpdate(twin0, hands', now')} :
           /\ twin1.foods = foods'
           /\ twin1.slicedFoods = slicedFoods'
           /\ twin1.gl = gl'
           /\ twin1.scored = pass'.scored
           /\ (twin1.effects = <<>>) = (fingerVisualizer \/ pass'.scored = <<>>)]_vars

\* a detector with a visualizer slices a food and creates the particle burst
C24_Witness ==
    /\ fingerVisualizer
    /\ pass.ran
    /\ Len(pass.scored) > 0
    /\ Len(pass.effects) = Len(pass.scored)

(***************************************************************************)
(* Properties of the food list                                             *)
(***************************************************************************)
\* the foods of the list that the spawner update of a frame ends (they fell below
\* y = -5 or are older than 15 s), as the scoring rules and the list's owner state it
EndedBySpawner(fds, deltaTime, currentTime) ==
    {fds[i].uuid : i \in {k \in 1..Len(fds) :
        LET vy == fds[k].velocity[2] - (180 * deltaTime) \div 1000
        IN  \/ fds[k].position[2] + (vy * deltaTime) \div 1000 < -500
            \/ currentTime - fds[k].spawnTime > 15000}}

\* C25: in every frame, a food the spawner ends is gone from the list and is neither
\* tested, sliced nor scored in that frame; a food is sliced only while it is in the
\* list, is scored once and leaves the list; every food that leaves the list in a
\* frame was ended by the spawner or sliced, never both; and no uuid ever returns to
\* the list, so a food that has left is never sliced in a later frame.
C25_RemovalIsExclusive ==
    [][(now' # now) =>
          \A ended \in {EndedBySpawner(foods, lastOp'.deltaTime, now')} :
             /\ \A u \in ended :
                   /\ u \notin Range(Uuids(foods'))
                   /\ u \notin pass'.tested
                   /\ u \notin Range(pass'.handled)
                   /\ u \notin Range(pass'.scored)
             /\ \A u \in Range(pass'.handled) :
                   /\ u \in (Range(Uuids(foods)) \cup {nextUuid}) \ ended
                   /\ u \notin Range(Uuids(foods'))
                   /\ u \in DOMAIN sliceCalls' /\ sliceCalls'[u] = 1
                   /\ u \notin DOMAIN sliceCalls
             /\ \A u \in Range(Uuids(foods)) \ Range(Uuids(foods')) :
                   (u \in ended) # (u \in Range(pass'.scored))
             /\ Range(Uuids(foods')) \subseteq Range(Uuids(foods)) \cup {nextUuid}
             /\ \A u \in Range(Uuids(foods')) : u < nextUuid'
             /\ nextUuid' >= nextUuid]_vars

\* four frames from an empty list: a food has been sliced, and another one, never
\* sliced, has been ended by the spawner
C25_Witness ==
    /\ frames = 4
    /\ nextUuid = 5
    /\ DOMAIN sliceCalls # {}
    /\ \E u \in 1..4 : u \notin Range(Uuids(foods)) /\ u \notin DOMAIN sliceCalls

\* C26: the list never holds more than 15 foods, and no step adds more than one food
\* to it.
C26_AtMostMaxFoods ==
    /\ [](Len(foods) <= 15)
    /\ [][Cardinality(Range(Uuids(foods')) \ Range(Uuids(foods))) <= 1]_vars

\* two frames of 1 s from a list of 14: the first spawn filled the list, the second
\* spawn was due and has been refused
C26_Witness ==
    /\ Len(foods) = 15
    /\ nextUuid = 16
    /\ spawnTimer = 0
    /\ frames = 2
    /\ now = 3000

C27_CacheLifetime ==
    pass.ran =>
        \A u \in pass.tested :
            /\ u \in DOMAIN boundingBoxCache
            /\ pass.volume[u] = boundingBoxCache[u].boundingBox
            /\ pass.time - boundingBoxCache[u].time < 100
            /\ IF u \in DOMAIN pass.cacheBefore
                  /\ pass.time - pass.cacheBefore[u].time < 100
               THEN boundingBoxCache[u] = pass.cacheBefore[u]
               ELSE /\ boundingBoxCache[u].time = pass.time
                    /\ \A k \in 1..3 :
                          pass.volume[u].max[k] + pass.volume[u].min[k]
                              = 2 * pass.position[u][k]

\* a food that has moved is tested against the volume cached 50 ms earlier
C27_Witness ==
    /\ pass.ran
    /\ \E u \in pass.tested :
          /\ u \in DOMAIN pass.cacheBefore
          /\ pass.time - pass.cacheBefore[u].time = 50
          /\ pass.volume[u] = pass.cacheBefore[u].boundingBox
          /\ pass.volume[u].max[2] + pass.volume[u].min[2] # 2 * pass.position[u][2]

\* C29: a pass whose handleFoodSlice calls are all for foods absent from the live
\* list changes nothing: the live list, the score state, the cooldown map and
\* totalCollisions are as before.
C29_AbsentSliceIsNoOp ==
    [][(/\ pass'.ran
        /\ pass'.handled # <<>>
        /\ Range(pass'.handled) \cap Range(Uuids(foods)) = {}) =>
          /\ foods' = foods
          /\ gl' = gl
          /\ slicedFoods' = slicedFoods
          /\ totalCollisions' = totalCollisions]_vars

\* C30: after every processHandResults call the keys of previousFingertips are
\* exactly the fingertip ids of the current frame, there is one id per detected
\* hand (landmark 8) and the ids are pairwise distinct, every key of
\* velocityHistory is a key of previousFingertips, and every velocity history
\* has between 1 and maxVelocityHistory entries.
C30_TrackerConsistent ==
    /\ DOMAIN previousFingertips = FingertipIdsOf(hands)
    /\ \A i \in 1..Len(hands) :
           /\ Len(hands[i].fingertips) = 1
           /\ hands[i].fingertips[1].id = FingertipId(hands[i].id, IndexFingertip)
    /\ Cardinality(FingertipIdsOf(hands)) = Len(hands)
    /\ DOMAIN velocityHistory \subseteq DOMAIN previousFingertips
    /\ \A id \in DOMAIN velocityHistory :
           /\ Len(velocityHistory[id]) >= 1
           /\ Len(velocityHistory[id]) <= maxVelocityHistory

\* two hands tracked for seven frames: six velocities were pushed to each
\* history and the oldest one was dropped
C30_Witness ==
    /\ Len(hands) = 2
    /\ DOMAIN velocityHistory = FingertipIdsOf(hands)
    /\ \A id \in DOMAIN velocityHistory :
           /\ track[id].n = maxVelocityHistory + 2
           /\ Len(velocityHistory[id]) = maxVelocityHistory

\* C31: in every state of the running game (frames and resetGame in any order)
\* the score is the sum of the points returned by the sliceFood calls since the
\* last reset and totalCollisions equals foodsSliced; between resets (in every
\* frame) the score does not decrease.
C31_ScoreAccounting ==
    /\ [](gl.score = awarded /\ totalCollisions = gl.foodsSliced)
    /\ [][now' # now => gl'.score >= gl.score]_vars

\* seven foods were sliced in a combo, a reset wiped their score, and a food
\* was sliced in a frame after the reset
C31_Witness ==
    /\ lastOp.op = "update"
    /\ gl.foodsSliced = 1
    /\ gl.score > 0
    /\ Cardinality(DOMAIN sliceCalls) >= gl.foodsSliced + 7

\* C32: gameTime never exceeds the wall-clock time elapsed since the game loop
\* was started, and the level is 1 after the first frame.
C32_GameTimeIsPlayedTime ==
    /\ \A started \in StartTimes : gl.gameTime <= now - started
    /\ (frames = 1 /\ lastOp.op = "update") => gl.level = 1

(***************************************************************************)
(* Properties of the error handling                                        *)
(***************************************************************************)
\* C19: when the live list holds an entry without mesh, CollisionDetector.update
\* raises no error and every other food of the list that is not in cooldown is
\* tested in that pass.
C19_MeshlessIsSkipped ==
    (pass.ran /\ pass.viaUpdate /\ pass.meshless # {}) =>
        /\ ~ pass.threw
        /\ \A i \in 1..Len(pass.given) :
              (i \notin pass.meshless /\ pass.given[i] \notin pass.cooling)
                  => pass.given[i] \in pass.tested

\* C18: in a frame in which the landmark detector throws, the collision detector
\* sees no hands: no collision pass runs, so no food is touched or sliced.
C18_ThrowMeansNoHands ==
    (lastOp.op = "update" /\ lastOp.threw) =>
        /\ ~ pass.ran
        /\ pass.fingertips = <<>>
        /\ pass.handled = <<>>

\* C20: after every run of the game loop the next frame is scheduled.
C20_NextFrameScheduled == scheduled

\* C23: after every CollisionDetector.update call, with or without a hand detected,
\* slicedFoods holds no record whose slice is more than collisionCooldown ms old.
C23_ExpiredRecordsPurged ==
    (~ pass.ran \/ pass.viaUpdate) =>
        \A u \in DOMAIN slicedFoods : now - slicedFoods[u].time <= 200

(***************************************************************************)
(* Properties of the tracker                                               *)
(***************************************************************************)
\* the fingertips of the current hand list, flattened
Fingertips == getAllFingertips(hands)

\* the raw velocity between two successive observations <<position, time>>, as the
\* specification states it: distance over elapsed seconds, 0 when no time elapsed
StatedRaw(o1, o2) ==
    IF o2[2] - o1[2] > 0
    THEN (DistanceTo(o2[1], o1[1]) * 10 * VelPerUnit) \div (o2[2] - o1[2])
    ELSE 0

StatedRaws(obs) == [k \in 1..(Len(obs) - 1) |-> StatedRaw(obs[k], obs[k + 1])]

\* C6: the velocity reported for an id on the first frame it is observed
\* (no previous-position entry existed) is exactly 0.
C6_FirstVelocityZero ==
    \A j \in 1..Len(Fingertips) :
        track[Fingertips[j].id].n = 1 => Fingertips[j].velocity = 0

C6_Witness ==
    \E j \in 1..Len(Fingertips) :
        /\ track[Fingertips[j].id].n = 1
        /\ Fingertips[j].velocity = 0
        /\ frames >= 2

\* C7: for an id observed in N >= 2 consecutive frames the reported velocity is the
\* arithmetic mean of the last min(N-1, 5) raw instantaneous velocities, and no
\* history holds more than 5 entries.
C7_MeanOfLastRaws ==
    /\ \A j \in 1..Len(Fingertips) :
          LET t == track[Fingertips[j].id]
              raws == LastN(StatedRaws(t.obs), Min(t.n - 1, 5))
          IN  t.n >= 2 =>
                 /\ Len(raws) = Min(t.n - 1, 5)
                 /\ Fingertips[j].velocity * Len(raws) = SumSeq(raws)
    /\ \A id \in DOMAIN velocityHistory : Len(velocityHistory[id]) <= 5

C7_Witness ==
    \E j \in 1..Len(Fingertips) :
        LET t == track[Fingertips[j].id]
        IN  /\ t.n >= 7
            /\ Fingertips[j].velocity > 0
            /\ StatedRaw(t.obs[1], t.obs[2]) # StatedRaw(t.obs[5], t.obs[6])

\* C8 as stated: the first observation seeds the history with 0, so after exactly
\* two observations the reported velocity is the mean of [0, v], i.e. v / 2.
C8_SeededWithZero ==
    \A j \in 1..Len(Fingertips) :
        LET t == track[Fingertips[j].id]
        IN  t.n = 2 => Fingertips[j].velocity * 2 = StatedRaw(t.obs[1], t.obs[2])

\* C8 amended: the first observation stores no history entry; after exactly two
\* observations the history is [v] and the reported velocity is v itself.
C8_SecondVelocityIsRaw ==
    \A j \in 1..Len(Fingertips) :
        LET id == Fingertips[j].id
            t == track[id]
        IN  /\ t.n = 1 => id \notin DOMAIN velocityHistory
            /\ t.n = 2 =>
                  /\ velocityHistory[id] = <<StatedRaw(t.obs[1], t.obs[2])>>
                  /\ Fingertips[j].velocity = StatedRaw(t.obs[1], t.obs[2])

C8_Witness ==
    \E j \in 1..Len(Fingertips) :
        LET t == track[Fingertips[j].id]
        IN  /\ t.n = 2
            /\ Fingertips[j].velocity = VelPerUnit \div 2
            /\ StatedRaw(t.obs[1], t.obs[2]) = VelPerUnit \div 2

\* C9: an id absent from a processed frame has its previous-position and
\* velocity-history entries purged in that frame; when it reappears its velocity
\* is 0 and only the samples since its reappearance are in its history.
C9_PurgedWhenAbsent ==
    /\ (DOMAIN previousFingertips) \cup (DOMAIN velocityHistory)
           \subseteq FingertipIdsOf(hands)
    /\ \A j \in 1..Len(Fingertips) :
          LET id == Fingertips[j].id
              t == track[id]
          IN  id \in ident.gone =>
                 /\ t.n = 1 => Fingertips[j].velocity = 0 /\ id \notin DOMAIN velocityHistory
                 /\ t.n >= 2 => velocityHistory[id] = StatedRaws(t.obs)
                 /\ previousFingertips[id].time = t.obs[Len(t.obs)][2]

C9_Witness ==
    \E j \in 1..Len(Fingertips) :
        /\ Fingertips[j].id \in ident.gone
        /\ track[Fingertips[j].id].n = 2
        /\ Fingertips[j].velocity > 0

\* C10: while a physical hand stays detected frame after frame its fingertip keeps
\* the same id, and its velocity is measured from its own previous position, also
\* when the other hand appears or disappears and the result order changes.
IdOfHand(owner, w) == CHOOSE id \in DOMAIN owner : owner[id] = w
DetectedIn(owner, w) == \E id \in DOMAIN owner : owner[id] = w

C10_StableFingertipId ==
    \A w \in Who :
        (DetectedIn(ident.owner, w) /\ DetectedIn(ident.prevOwner, w)) =>
            /\ IdOfHand(ident.owner, w) = IdOfHand(ident.prevOwner, w)
            /\ ident.velSrc[w] = w

=============================================================================
